---- MODULE Spec2Model ----
(***************************************************************************)
(* A model of DrawingCanvas (src/canvas.py): a pixel surface that          *)
(* accumulates strokes and erasure marks and is composited over a video    *)
(* frame.  The object's fields are the variables width, height, canvas,    *)
(* prev_point, brush_size and eraser_size; every method is one action.     *)
(* The remaining variables record the call that was made last (its name,   *)
(* arguments, outcome and return value) and the caller's frame buffer, so  *)
(* that properties of single calls can be stated.  before is the name of   *)
(* the call made before the last one; stroke lists the (point, color)      *)
(* arguments of the draw_from_previous calls with a present point made     *)
(* since the last construction, clear_previous, reset or resize, and       *)
(* only_strokes tells that no other method was called since then.  cover   *)
(* tells for every pixel of the surface which call was the last to cover   *)
(* it since the surface was allocated, given is the (width, height) handed *)
(* to the construction or the last resize that returned, and held is the  *)
(* caller's reference to the array that get_canvas returned last.          *)
(***************************************************************************)
EXTENDS Integers, Sequences, FiniteSets

VARIABLES width, height, canvas, prev_point, brush_size, eraser_size,
          op, args, raised, ret, frame, branch, nops,
          before, stroke, only_strokes, cover, given, held

vars == <<width, height, canvas, prev_point, brush_size, eraser_size,
          op, args, raised, ret, frame, branch, nops,
          before, stroke, only_strokes, cover, given, held>>

fields == <<width, height, canvas, prev_point, brush_size, eraser_size>>

----------------------------------------------------------------------------
(* Bounds and input sets *)

\* Number of calls made on one canvas object.
MaxOps == 3

\* Python's None (an absent point, or no return value).
None == <<>>

\* Present points (x, y) handed to the canvas; <<33, 2>> lies outside every
\* surface of Sizes, which cv2 accepts and clips.
Points == {<<1, 1>>, <<6, 4>>, <<33, 2>>}

OptPoints == Points \cup {None}

\* The points handed to draw_point and those handed to erase_at.
NearPoints == {<<1, 1>>, <<6, 4>>, None}
ErasePoints == {<<1, 1>>, <<33, 2>>, None}

\* (start, end) pairs handed to draw_line.
Segments == {<<<<1, 1>>, <<6, 4>>>>, <<<<6, 4>>, <<33, 2>>>>,
             <<None, <<6, 4>>>>, <<<<1, 1>>, None>>, <<None, None>>}

\* BGR colors handed to the draw calls.
Black == <<0, 0, 0>>
Green == <<0, 255, 0>>
Gray == <<128, 128, 128>>
Colors == {Black, Green}

\* (width, height) pairs given to the constructor and to resize: positive
\* integers, the arguments the canvas is specified for.
Sizes == {<<8, 6>>, <<6, 8>>}

\* (width, height) of the frames handed to add_to_frame.
FrameSizes == Sizes \cup {<<8, 8>>}

----------------------------------------------------------------------------
(* Arrays and rasterization *)

\* The pixel positions (x, y) of an array with the given shape.
Pixels(rows, cols) == (0 .. cols - 1) \X (0 .. rows - 1)

\* np.zeros((rows, cols, 3), dtype=np.uint8)
Zeros(rows, cols) ==
    [rows |-> rows, cols |-> cols, px |-> [q \in Pixels(rows, cols) |-> Black]]

Sq(n) == n * n

\* cv2.circle(img, center, radius, color, -1): the filled disc.
InCircle(q, center, radius) ==
    Sq(q[1] - center[1]) + Sq(q[2] - center[2]) <= Sq(radius)

\* cv2.line(img, start, end, color, thickness): the pixels within
\* thickness/2 of the segment from start to end (round caps).
InLine(q, start, end, thickness) ==
    LET dx == end[1] - start[1]
        dy == end[2] - start[2]
        qx == q[1] - start[1]
        qy == q[2] - start[2]
        len2 == Sq(dx) + Sq(dy)
        dot == qx * dx + qy * dy
        cross == qx * dy - qy * dx
    IN  IF dot <= 0 THEN 4 * (Sq(qx) + Sq(qy)) <= Sq(thickness)
        ELSE IF dot >= len2
             THEN 4 * (Sq(q[1] - end[1]) + Sq(q[2] - end[2])) <= Sq(thickness)
             ELSE 4 * Sq(cross) <= Sq(thickness) * len2

\* The pixels of img that the two primitives write (clipped to the image).
CirclePixels(img, center, radius) ==
    {q \in DOMAIN img.px : InCircle(q, center, radius)}

LinePixels(img, start, end, thickness) ==
    {q \in DOMAIN img.px : InLine(q, start, end, thickness)}

\* Writing one color into the pixels of a set that are still (0,0,0).
FillBlank(img, S, color) ==
    [img EXCEPT !.px = [q \in DOMAIN img.px |->
                           IF q \in S /\ img.px[q] = Black
                           THEN color ELSE img.px[q]]]

\* Writing one color into a set of pixels of an array, in place.
Fill(img, S, color) ==
    [img EXCEPT !.px = [q \in DOMAIN img.px |->
                           IF q \in S THEN color ELSE img.px[q]]]

----------------------------------------------------------------------------
(* The methods as functions of the surface *)

\* draw_line's effect on the surface.
LineOn(img, start, end, color, size) ==
    IF start = None \/ end = None
    THEN img
    ELSE Fill(img, LinePixels(img, start, end, size), color)

\* draw_point's effect on the surface.
PointOn(img, point, color, size) ==
    IF point = None
    THEN img
    ELSE Fill(img, CirclePixels(img, point, size), color)

\* erase_at punching a disc of the brush's radius.
EraseOnBrush(img, point, size) ==
    IF point = None
    THEN img
    ELSE Fill(img, CirclePixels(img, point, brush_size), Black)

\* erase_at's effect on the surface.
EraseOn(img, point, size) ==
    IF point = None
    THEN img
    ELSE Fill(img, CirclePixels(img, point, size), Black)

\* The branch draw_from_previous takes.
StrokeBranch(prev, current_point) ==
    IF current_point = None THEN "return"
    ELSE IF prev # None THEN "line" ELSE "point"

\* draw_from_previous drawing a point on both branches.
StrokeOnPointOnly(img, prev, current_point, color, size) ==
    PointOn(img, current_point, color, size)

\* draw_from_previous's effect on the surface.
StrokeOn(img, prev, current_point, color, size) ==
    IF current_point = None THEN img
    ELSE IF prev # None
         THEN LineOn(img, prev, current_point, color, size)
         ELSE PointOn(img, current_point, color, size)

\* draw_from_previous without its early return.
StrokePrevNoReturn(prev, current_point) == current_point

\* draw_from_previous forgetting line 78 on the draw-point branch.
StrokePrevLineOnly(prev, current_point) ==
    IF current_point = None \/ prev = None THEN prev ELSE current_point

\* draw_from_previous ending the stroke after every segment.
StrokePrevSegment(prev, current_point) ==
    IF current_point = None THEN prev
    ELSE IF prev = None THEN current_point ELSE None

\* draw_from_previous's effect on prev_point.
StrokePrev(prev, current_point) ==
    IF current_point = None THEN prev ELSE current_point

\* A mask that looks at the first channel only.
MaskFirstChannel(img) == [q \in DOMAIN img.px |-> img.px[q][1] > 0]

\* mask = np.any(self.canvas > 0, axis=2)
Mask(img) == [q \in DOMAIN img.px |-> \E ch \in 1 .. 3 : img.px[q][ch] > 0]

\* A shape check that compares the rows only.
MaskMismatchRows(img, fr) == img.rows > 0 /\ img.rows # fr.rows

\* result[mask] = ... raises IndexError when the boolean index does not
\* match the indexed array along a dimension (numpy skips the comparison
\* for a boolean dimension of size 0).
MaskMismatch(img, fr) ==
    \/ img.rows > 0 /\ img.rows # fr.rows
    \/ img.cols > 0 /\ img.cols # fr.cols

\* A composite that copies the whole surface over the frame.
CompositeOpaque(img, fr) ==
    [fr EXCEPT !.px = [q \in DOMAIN fr.px |->
                          IF q \in DOMAIN img.px THEN img.px[q] ELSE fr.px[q]]]

\* result = frame.copy(); result[mask] = self.canvas[mask]
Composite(img, fr) ==
    [fr EXCEPT !.px = [q \in DOMAIN fr.px |->
                          IF q \in DOMAIN img.px /\ Mask(img)[q]
                          THEN img.px[q] ELSE fr.px[q]]]

\* A video frame of the given size: uniform gray, or a gradient.
Frame(size, kind) ==
    [rows |-> size[2], cols |-> size[1],
     px |-> [q \in Pixels(size[2], size[1]) |->
                IF kind = "gray" THEN Gray ELSE <<q[1] + 1, q[2] + 1, 0>>]]

Frames == {Frame(s, "gray") : s \in FrameSizes}
              \cup {Frame(<<8, 6>>, "gradient")}

----------------------------------------------------------------------------
(* The object *)

\* No call has covered any pixel of a new w x h surface.
Uncovered(w, h) ==
    [q \in Pixels(h, w) |-> [by |-> "none", color |-> Black]]

\* The call (name, a) rasterizes a shape: it is a draw or erase call with
\* its points present.
Rasterizes(name, a) ==
    \/ name \in {"draw_point", "draw_from_previous", "erase_at"} /\ a[1] # None
    \/ name = "draw_line" /\ a[1] # None /\ a[2] # None

\* The pixels of the surface that the shape of such a call covers: a disc
\* of radius brush_size (draw_point, the first draw_from_previous of a
\* stroke) or eraser_size (erase_at), or a segment of thickness brush_size.
Covered(name, a) ==
    CASE name = "draw_point" ->
             {q \in DOMAIN cover : InCircle(q, a[1], brush_size)}
      [] name = "draw_line" ->
             {q \in DOMAIN cover : InLine(q, a[1], a[2], brush_size)}
      [] name = "draw_from_previous" ->
             IF stroke = <<>>
             THEN {q \in DOMAIN cover : InCircle(q, a[1], brush_size)}
             ELSE {q \in DOMAIN cover :
                      InLine(q, stroke[Len(stroke)][1], a[1], brush_size)}
      [] name = "erase_at" ->
             {q \in DOMAIN cover : InCircle(q, a[1], eraser_size)}

\* What the call (name, a) leaves on the pixels it covers.
Ink(name, a) ==
    IF name = "erase_at"
    THEN [by |-> "erase", color |-> Black]
    ELSE [by |-> "draw", color |-> a[Len(a)]]

\* __init__(width, height)
Init ==
    /\ \E s \in Sizes :
          /\ width = s[1]
          /\ height = s[2]
          /\ canvas = Zeros(s[2], s[1])
          /\ cover = Uncovered(s[1], s[2])
          /\ given = s
    /\ held = None
    /\ prev_point = None
    /\ brush_size = 5
    /\ eraser_size = 30
    /\ op = "__init__"
    /\ args = <<>>
    /\ raised = FALSE
    /\ ret = None
    /\ frame = None
    /\ branch = "none"
    /\ nops = 0
    /\ before = "none"
    /\ stroke = <<>>
    /\ only_strokes = TRUE

\* A reference to an array that self.canvas is bound to.
Alias == [live |-> TRUE, img |-> None]

\* A reference to an array of its own, holding img.
Detached(img) == [live |-> FALSE, img |-> img]

\* The calls that bind self.canvas to a new array.
Allocates == {"reset", "resize"}

\* The calls that end a stroke.
Lifts == {"clear_previous", "reset", "resize"}

\* The record of the calls made: what the call (name, a) adds to it.
Record(name, a, completed) ==
    /\ nops < MaxOps
    /\ nops' = nops + 1
    /\ op' = name
    /\ args' = a
    /\ before' = op
    /\ stroke' = IF name = "draw_from_previous" /\ a[1] # None
                 THEN Append(stroke, <<a[1], a[2]>>)
                 ELSE IF name \in Lifts /\ completed THEN <<>> ELSE stroke
    /\ only_strokes' = IF name \in Lifts /\ completed THEN TRUE
                       ELSE only_strokes /\ name = "draw_from_previous"
    /\ cover' = IF name \in Allocates /\ completed
                THEN IF name = "resize"
                     THEN Uncovered(a[1], a[2])
                     ELSE Uncovered(width, height)
                ELSE IF Rasterizes(name, a)
                THEN LET ink == Ink(name, a)
                         S == Covered(name, a)
                     IN  [q \in DOMAIN cover |->
                             IF q \in S THEN ink ELSE cover[q]]
                ELSE cover
    /\ given' = IF name = "resize" /\ completed THEN <<a[1], a[2]>> ELSE given
    /\ IF name \in {"get_canvas", "caller_write"}
       THEN TRUE
       ELSE held' = IF name \in Allocates /\ completed /\ held # None
                       /\ held.live
                    THEN Detached(canvas)
                    ELSE held

\* What every call records: its name, arguments, the branch it took and its
\* outcome (whether it raised, and the value it returned).
Call(name, a, r, b) ==
    /\ Record(name, a, TRUE)
    /\ raised' = FALSE
    /\ ret' = r
    /\ branch' = b

\* A call that raises: no value is returned.
Raise(name, a) ==
    /\ Record(name, a, FALSE)
    /\ raised' = TRUE
    /\ ret' = None
    /\ branch' = "none"

\* np.zeros raises ValueError on a negative dimension.
ZerosRaises(rows, cols) == rows < 0 \/ cols < 0

\* reset's new surface.
ResetCanvas(w, h) == Zeros(h, w)

\* reset leaving prev_point as it is.
reset_keeps_point ==
    /\ Call("reset", <<>>, None, "none")
    /\ canvas' = ResetCanvas(width, height)
    /\ UNCHANGED <<width, height, prev_point, brush_size, eraser_size, frame>>

reset ==
    IF ZerosRaises(height, width)
    THEN /\ Raise("reset", <<>>)
         /\ UNCHANGED <<fields, frame>>
    ELSE /\ Call("reset", <<>>, None, "none")
         /\ canvas' = ResetCanvas(width, height)
         /\ prev_point' = None
         /\ UNCHANGED <<width, height, brush_size, eraser_size, frame>>

draw_line(start, end, color) ==
    /\ Call("draw_line", <<start, end, color>>, None, "none")
    /\ canvas' = LineOn(canvas, start, end, color, brush_size)
    /\ UNCHANGED <<width, height, prev_point, brush_size, eraser_size, frame>>

\* draw_point remembering its point as the stroke's last point.
draw_point_tracks(point, color) ==
    /\ Call("draw_point", <<point, color>>, None, "none")
    /\ canvas' = PointOn(canvas, point, color, brush_size)
    /\ prev_point' = IF point = None THEN prev_point ELSE point
    /\ UNCHANGED <<width, height, brush_size, eraser_size, frame>>

draw_point(point, color) ==
    /\ Call("draw_point", <<point, color>>, None, "none")
    /\ canvas' = PointOn(canvas, point, color, brush_size)
    /\ UNCHANGED <<width, height, prev_point, brush_size, eraser_size, frame>>

draw_from_previous(current_point, color) ==
    /\ Call("draw_from_previous", <<current_point, color>>, None,
            StrokeBranch(prev_point, current_point))
    /\ canvas' = StrokeOn(canvas, prev_point, current_point, color, brush_size)
    /\ prev_point' = StrokePrev(prev_point, current_point)
    /\ UNCHANGED <<width, height, brush_size, eraser_size, frame>>

\* clear_previous leaving prev_point as it is.
clear_previous_keeps ==
    /\ Call("clear_previous", <<>>, None, "none")
    /\ UNCHANGED <<fields, frame>>

clear_previous ==
    /\ Call("clear_previous", <<>>, None, "none")
    /\ prev_point' = None
    /\ UNCHANGED <<width, height, canvas, brush_size, eraser_size, frame>>

\* erase_at ending the stroke as well.
erase_at_lifts(point) ==
    /\ Call("erase_at", <<point>>, None, "none")
    /\ canvas' = EraseOn(canvas, point, eraser_size)
    /\ prev_point' = None
    /\ UNCHANGED <<width, height, brush_size, eraser_size, frame>>

erase_at(point) ==
    /\ Call("erase_at", <<point>>, None, "none")
    /\ canvas' = EraseOn(canvas, point, eraser_size)
    /\ UNCHANGED <<width, height, prev_point, brush_size, eraser_size, frame>>

\* return self.canvas: the array itself.
Returned(img) == Alias

get_canvas ==
    /\ Call("get_canvas", <<>>, canvas, "none")
    /\ held' = Returned(canvas)
    /\ UNCHANGED <<fields, frame>>

\* The content seen through the reference that get_canvas returned.
View == IF held.live THEN canvas ELSE held.img

\* The caller writing color into pixel q of the array that get_canvas
\* returned.
caller_write(q, color) ==
    /\ held # None
    /\ q \in DOMAIN View.px
    /\ Call("caller_write", <<q, color>>, None, "none")
    /\ IF held.live
       THEN /\ canvas' = Fill(canvas, {q}, color)
            /\ held' = held
       ELSE /\ canvas' = canvas
            /\ held' = Detached(Fill(held.img, {q}, color))
    /\ UNCHANGED <<width, height, prev_point, brush_size, eraser_size, frame>>

\* A surface allocated with width and height swapped.
ResizeCanvasSwapped(w, h) == Zeros(w, h)

\* resize's new surface.
ResizeCanvas(w, h) == Zeros(h, w)

resize(w, h) ==
    /\ width' = w
    /\ height' = h
    /\ IF ZerosRaises(h, w)
       THEN /\ Raise("resize", <<w, h>>)
            /\ UNCHANGED <<canvas, prev_point>>
       ELSE /\ Call("resize", <<w, h>>, None, "none")
            /\ canvas' = ResizeCanvas(w, h)
            /\ prev_point' = None
    /\ UNCHANGED <<brush_size, eraser_size, frame>>

\* add_to_frame writing into the frame itself (no copy).
FrameAfterInPlace(img, fr) ==
    IF MaskMismatch(img, fr) THEN fr ELSE Composite(img, fr)

\* The caller's frame after add_to_frame: the method writes into a copy.
FrameAfter(img, fr) == fr

add_to_frame(fr) ==
    /\ IF MaskMismatch(canvas, fr)
       THEN Raise("add_to_frame", <<fr>>)
       ELSE Call("add_to_frame", <<fr>>, Composite(canvas, fr), "none")
    /\ frame' = FrameAfter(canvas, fr)
    /\ UNCHANGED fields

Next ==
    \/ reset
    \/ \E s \in Sizes : resize(s[1], s[2])
    \/ \E fr \in Frames : add_to_frame(fr)
    \/ \E se \in Segments : draw_line(se[1], se[2], Green)
    \/ \E p \in NearPoints, c \in Colors : draw_point(p, c)
    \/ \E p \in OptPoints, c \in Colors : draw_from_previous(p, c)
    \/ clear_previous
    \/ \E p \in ErasePoints : erase_at(p)
    \/ get_canvas

Spec == Init /\ [][Next]_vars

\* (width, height) pairs with a dimension that is not positive.
OtherSizes == {<<0, 6>>, <<-1, 6>>}

\* The methods called with any integers the code accepts.
NextAny ==
    \/ Next
    \/ \E s \in OtherSizes : resize(s[1], s[2])

SpecAny == Init /\ [][NextAny]_vars

\* The pixel and the color the caller writes through get_canvas's value.
CallerPixels == {<<0, 0>>}

\* The methods, and the caller writing into what get_canvas returned.
NextAlias ==
    \/ Next
    \/ \E q \in CallerPixels : caller_write(q, Green)

SpecAlias == Init /\ [][NextAlias]_vars

----------------------------------------------------------------------------
(* Properties *)

\* The point and the color of the i-th call of the current stroke.
StrokePoint(i) == stroke[i][1]
StrokeColor(i) == stroke[i][2]

\* The last call was draw_from_previous with a present point.
Stroked == op = "draw_from_previous" /\ args[1] # None

\* img with color written into exactly the pixels q satisfying In(q).
Painted(new, old, In(_), color) ==
    /\ new.rows = old.rows
    /\ new.cols = old.cols
    /\ DOMAIN new.px = DOMAIN old.px
    /\ \A q \in DOMAIN old.px :
          new.px[q] = IF In(q) THEN color ELSE old.px[q]

\* C1: prev_point is absent exactly when no draw_from_previous call with a
\* present point was made since the last construction, clear_previous, reset
\* or resize, and otherwise is the point given to the most recent such call;
\* no other method changes it.
C1_PrevPointIsLastStrokePoint ==
    prev_point = IF stroke = <<>> THEN None ELSE StrokePoint(Len(stroke))

\* A stroke of two calls was followed by a direct primitive call.
C1_Witness ==
    /\ Len(stroke) >= 2
    /\ op \in {"draw_line", "draw_point", "erase_at"}
    /\ args[1] # None
    /\ prev_point # None

\* C2: draw_from_previous(p, c) called right after clear_previous takes the
\* draw-point branch: the pixels of the disc of radius brush_size at p get
\* color c and no other pixel of the surface changes.
C2_PointAfterClearPrevious ==
    [][(op = "clear_previous" /\ op' = "draw_from_previous" /\ args'[1] # None)
        => /\ branch' = "point"
           /\ LET In(q) == InCircle(q, args'[1], brush_size)
              IN  Painted(canvas', canvas, In, args'[2])]_vars

\* A stroke was lifted and the next point drawn, with ink of the earlier
\* stroke left outside the new disc.
C2_Witness ==
    /\ before = "clear_previous"
    /\ Stroked
    /\ \E q \in DOMAIN canvas.px :
          canvas.px[q] # Black /\ ~InCircle(q, args[1], brush_size)

\* The i-th call of the current stroke rasterizes a disc at its point when it
\* is the first and the segment from the point before otherwise.
InStrokeShape(i, q) ==
    IF i = 1
    THEN InCircle(q, StrokePoint(1), brush_size)
    ELSE InLine(q, StrokePoint(i - 1), StrokePoint(i), brush_size)

\* The calls of the current stroke whose shape covers q.
Covering(q) == {i \in 1 .. Len(stroke) : InStrokeShape(i, q)}

\* The pixels of the surface covered by the current stroke.
StrokePath == {q \in DOMAIN canvas.px : Covering(q) # {}}

Last(S) == CHOOSE i \in S : \A j \in S : j <= i

Adjacent(a, b) ==
    /\ a[1] - b[1] \in -1 .. 1
    /\ a[2] - b[2] \in -1 .. 1

\* The pixels of S connected to those of R.
RECURSIVE Grow(_, _)
Grow(S, R) ==
    LET more == {q \in S \ R : \E r \in R : Adjacent(q, r)}
    IN  IF more = {} THEN R ELSE Grow(S, R \cup more)

Connected(S) == S = {} \/ Grow(S, {CHOOSE q \in S : TRUE}) = S

\* Every point of the current stroke is a pixel of the surface.
StrokeOnSurface ==
    \A i \in 1 .. Len(stroke) : StrokePoint(i) \in DOMAIN canvas.px

AllZero(img) == \A q \in DOMAIN img.px : \A ch \in 1 .. 3 : img.px[q][ch] = 0

\* img has w columns and h rows.
HasSize(img, w, h) ==
    /\ img.cols = w
    /\ img.rows = h
    /\ DOMAIN img.px = (0 .. w - 1) \X (0 .. h - 1)

\* C4: reset always succeeds and leaves an all-zero surface of the width and
\* height the canvas had, with prev_point absent; the next
\* draw_from_previous with a present point draws an isolated point.
C4_ResetStartsAfresh ==
    [][/\ op' = "reset" =>
            /\ ~raised'
            /\ AllZero(canvas')
            /\ HasSize(canvas', canvas.cols, canvas.rows)
            /\ HasSize(canvas', width, height)
            /\ width' = width
            /\ height' = height
            /\ prev_point' = None
       /\ (op = "reset" /\ op' = "draw_from_previous" /\ args'[1] # None) =>
            /\ branch' = "point"
            /\ LET In(q) == InCircle(q, args'[1], brush_size)
               IN  Painted(canvas', canvas, In, args'[2])]_vars

\* A point was drawn right after a reset that followed an earlier call.
C4_Witness ==
    /\ before = "reset"
    /\ Stroked
    /\ branch = "point"
    /\ nops = 3

\* C5: after resize(w2, h2) with positive w2 and h2 the surface, which is
\* what get_canvas returns, has w2 columns and h2 rows and is all zero,
\* width and height are w2 and h2, and prev_point is absent.
C5_ResizeGivesZeroSurface ==
    /\ (op = "resize" /\ args[1] > 0 /\ args[2] > 0) =>
            /\ ~raised
            /\ HasSize(canvas, args[1], args[2])
            /\ AllZero(canvas)
            /\ width = args[1]
            /\ height = args[2]
            /\ prev_point = None
    /\ (before = "resize" /\ op = "get_canvas") =>
            /\ HasSize(ret, width, height)
            /\ AllZero(ret)

\* get_canvas was called after a resize to 6 x 8 that followed an earlier call.
C5_Witness ==
    /\ before = "resize"
    /\ op = "get_canvas"
    /\ nops = 3
    /\ ret.cols = 6
    /\ ret.rows = 8

\* C6: erase_at leaves prev_point unchanged, so the draw_from_previous that
\* follows erase_at calls made during a stroke draws the segment from the
\* stroke's last point.
C6_EraseKeepsStroke ==
    [][/\ op' = "erase_at" => prev_point' = prev_point
       /\ (op = "erase_at" /\ stroke # <<>>
              /\ op' = "draw_from_previous" /\ args'[1] # None) =>
            /\ branch' = "line"
            /\ LET In(q) == InLine(q, StrokePoint(Len(stroke)), args'[1],
                                   brush_size)
               IN  Painted(canvas', canvas, In, args'[2])]_vars

\* A stroke was continued after an erase_at with a present point.
C6_Witness ==
    /\ before = "erase_at"
    /\ Stroked
    /\ Len(stroke) >= 2
    /\ StrokePoint(1) # StrokePoint(2)

C8_AddToFramePure ==
    [][/\ op' = "add_to_frame" =>
            /\ UNCHANGED fields
            /\ frame' = args'[1]
       /\ (op = "add_to_frame" /\ op' = "add_to_frame" /\ args' = args) =>
            /\ ret' = ret
            /\ raised' = raised]_vars

\* Two composites in a row over a surface with ink on it.
C8_Witness ==
    /\ before = "add_to_frame"
    /\ op = "add_to_frame"
    /\ ~raised
    /\ ret # args[1]

\* C9: draw_point, erase_at and draw_from_previous with an absent point and
\* draw_line with an absent endpoint return without an error and leave the
\* surface and prev_point unchanged.
C9_AbsentPointNoOp ==
    [][(\/ op' \in {"draw_point", "erase_at", "draw_from_previous"}
             /\ args'[1] = None
        \/ op' = "draw_line" /\ (args'[1] = None \/ args'[2] = None)) =>
            /\ ~raised'
            /\ canvas' = canvas
            /\ prev_point' = prev_point]_vars

\* draw_from_previous(None, c) was called during a stroke.
C9_Witness ==
    /\ op = "draw_from_previous"
    /\ args[1] = None
    /\ prev_point # None
    /\ \E q \in DOMAIN canvas.px : canvas.px[q] # Black

\* C10: add_to_frame with a frame whose rows or columns differ from the
\* surface's raises, returns no image and leaves the canvas and the frame
\* unchanged.
C10_MismatchRaises ==
    [][(op' = "add_to_frame"
          /\ (args'[1].rows # canvas.rows \/ args'[1].cols # canvas.cols)) =>
            /\ raised'
            /\ ret' = None
            /\ UNCHANGED fields
            /\ frame' = args'[1]]_vars

\* add_to_frame raised on a frame that differs in its columns only.
C10_Witness ==
    /\ op = "add_to_frame"
    /\ raised
    /\ args[1].rows = canvas.rows
    /\ args[1].cols # canvas.cols

\* self.eraser_size
EraserSize == 30

\* C11: erase_at(p) with p present writes (0,0,0) into every pixel of the
\* surface within the disc of radius eraser_size = 30 at p and leaves every
\* other pixel unchanged; an add_to_frame that follows shows the frame's
\* own pixel everywhere inside the disc.
C11_EraseZeroesDisc ==
    [][/\ (op' = "erase_at" /\ args'[1] # None) =>
            /\ eraser_size = EraserSize
            /\ LET In(q) == InCircle(q, args'[1], EraserSize)
               IN  Painted(canvas', canvas, In, Black)
       /\ (op = "erase_at" /\ args[1] # None
              /\ op' = "add_to_frame" /\ ~raised') =>
            \A q \in DOMAIN ret'.px :
                InCircle(q, args[1], EraserSize) => ret'.px[q] = args'[1].px[q]]_vars

\* A green point was drawn and erase_at blanked its centre while green ink
\* outside the eraser's disc stayed.
C11_Witness ==
    /\ op = "erase_at"
    /\ args[1] # None
    /\ before = "draw_from_previous"
    /\ Len(stroke) = 1
    /\ StrokeColor(1) = Green
    /\ StrokePoint(1) \in DOMAIN canvas.px
    /\ canvas.px[StrokePoint(1)] = Black
    /\ \E q \in DOMAIN canvas.px : canvas.px[q] = Green

\* The last call whose shape covered q was a draw call.
Drawn(q) == cover[q].by = "draw"

C13_DimensionsPositiveAsGiven ==
    /\ canvas.cols > 0
    /\ canvas.rows > 0
    /\ canvas.cols = given[1]
    /\ canvas.rows = given[2]

\* The methods that write to the canvas's fields.
Mutating == {"draw_point", "draw_line", "erase_at", "draw_from_previous",
             "clear_previous", "reset", "resize"}

\* C14: a call of a mutating method that repeats the call made just before
\* it, with the same arguments, changes neither the surface nor prev_point.
C14_RepeatedCallChangesNothing ==
    [][(op' \in Mutating /\ op' = op /\ args' = args) =>
            /\ canvas' = canvas
            /\ prev_point' = prev_point]_vars

\* draw_from_previous drew a green segment to a point and was then called
\* again with the same point and color.
C14_Witness ==
    /\ nops = 3
    /\ Stroked
    /\ Len(stroke) = 3
    /\ StrokePoint(1) # StrokePoint(2)
    /\ stroke[2] = stroke[3]
    /\ StrokeColor(3) = Green
    /\ \E q \in DOMAIN canvas.px : canvas.px[q] = Green

\* The methods that rasterize a shape into the surface.
Rasterizing == {"draw_point", "draw_line", "draw_from_previous", "erase_at"}

\* C15: get_canvas changes no field and returns the surface's content; the
\* content seen through a value it returned earlier is not altered by a
\* later draw_point, draw_line, draw_from_previous or erase_at call, and a
\* write the caller makes through the value does not change the surface that
\* add_to_frame composites.
C15_SnapshotSemantics ==
    [][/\ op' = "get_canvas" =>
            /\ UNCHANGED fields
            /\ ret' = canvas
       /\ (held # None /\ op' \in Rasterizing) => View' = View
       /\ op' = "caller_write" => canvas' = canvas]_vars

\* Every pixel of the surface holds what the last call covering it wrote.
LastWriterWins ==
    /\ DOMAIN cover = DOMAIN canvas.px
    /\ \A q \in DOMAIN canvas.px : canvas.px[q] = cover[q].color

\* C16: every pixel of the surface holds the color argument of the most
\* recent draw call whose shape covers it since the construction, reset or
\* resize, (0,0,0) if that call was erase_at or if no call covered it; and a
\* draw_from_previous that follows an erase_at during a stroke writes its
\* color into every pixel of its segment, inside the erased disc too.
C16_LastWriterWins ==
    [][/\ LastWriterWins'
       /\ (op = "erase_at" /\ args[1] # None /\ stroke # <<>>
              /\ op' = "draw_from_previous" /\ args'[1] # None) =>
            \A q \in DOMAIN canvas.px :
                InLine(q, StrokePoint(Len(stroke)), args'[1], brush_size)
                    => canvas'.px[q] = args'[2]]_vars

\* A stroke's point, an erase_at that blanked it, and the stroke's next
\* segment painting green over a pixel that lies inside the eraser's disc.
C16_Witness ==
    /\ Stroked
    /\ before = "erase_at"
    /\ Len(stroke) = 2
    /\ StrokePoint(1) # StrokePoint(2)
    /\ \E q \in DOMAIN cover : cover[q].by = "erase"
    /\ \E q \in DOMAIN cover :
          /\ \A e \in ErasePoints \ {None} : InCircle(q, e, eraser_size)
          /\ Drawn(q)
          /\ canvas.px[q] = Green

\* C17: width and height are the surface's column and row counts after
\* every call, a resize that raises included; a resize that raises changes
\* no field, and a reset that follows it returns.
C17_ResizeIsAtomic ==
    [][/\ width' = canvas'.cols
       /\ height' = canvas'.rows
       /\ (op' = "resize" /\ raised') => UNCHANGED fields
       /\ (op = "resize" /\ raised /\ op' = "reset") => ~raised']_vars

\* The methods that draw a shape without looking at prev_point.
Primitives == {"draw_line", "draw_point"}

\* C18: draw_line and draw_point change no field but the surface, so
\* prev_point stays as it was; a draw_from_previous with a present point
\* that follows one of them draws the segment from the stroke's last point
\* when a stroke is in progress, and a point when none is.
C18_PrimitivesKeepPrevPoint ==
    [][/\ op' \in Primitives =>
            UNCHANGED <<width, height, prev_point, brush_size, eraser_size>>
       /\ (op \in Primitives /\ op' = "draw_from_previous"
              /\ args'[1] # None) =>
            IF stroke = <<>>
            THEN /\ prev_point = None
                 /\ branch' = "point"
                 /\ LET In(q) == InCircle(q, args'[1], brush_size)
                    IN  Painted(canvas', canvas, In, args'[2])
            ELSE /\ prev_point = StrokePoint(Len(stroke))
                 /\ branch' = "line"
                 /\ LET In(q) == InLine(q, StrokePoint(Len(stroke)),
                                        args'[1], brush_size)
                    IN  Painted(canvas', canvas, In, args'[2])]_vars

\* A stroke's point, a direct draw_point or draw_line that left green ink
\* away from the stroke, and draw_from_previous drawing the segment from
\* the stroke's point.
C18_Witness ==
    /\ Stroked
    /\ before \in Primitives
    /\ branch = "line"
    /\ Len(stroke) = 2
    /\ StrokePoint(1) # StrokePoint(2)
    /\ \E q \in DOMAIN canvas.px :
          /\ canvas.px[q] = Green
          /\ ~InCircle(q, StrokePoint(1), brush_size)
          /\ ~InLine(q, StrokePoint(1), StrokePoint(2), brush_size)

====
